---- MODULE Spec2Model ----
(***************************************************************************)
(* A model of texter's incremental text buffer: core::text::Text with its  *)
(* EOL index (core::eol_indexes::EolIndexes), the line scanner            *)
(* (core::lines::FastEOL), the position normaliser (GridIndex::normalize)  *)
(* and the four edit primitives.                                          *)
(*                                                                         *)
(* A text is a sequence of bytes, each byte a one-character string.  Rust  *)
(* offsets are 0-based: byte i of the program is element i + 1 here.       *)
(***************************************************************************)
EXTENDS Integers, Sequences, FiniteSets, TLC

VARIABLES
    text,            \* Text.text
    br_indexes,      \* Text.br_indexes.0
    old_br_indexes,  \* Text.old_br_indexes.0
    encoding,        \* Text.encoding
    last,            \* the last call: its arguments, its result, what the observer saw
    clean,           \* TRUE while every call so far has returned Ok
    calls            \* the number of calls made so far

vars == <<text, br_indexes, old_br_indexes, encoding, last, clean, calls>>

-----------------------------------------------------------------------------
(* Bounds *)

\* Longest text a construction starts from.
MaxInitLen == 2
\* Longest text the model lets an edit produce.
MaxLen == 3
\* Longest inserted string.
MaxStrLen == 2
\* Rows offered to an edit go from 0 to row_count() + RowSlack.
RowSlack == 2
\* Columns offered to an edit go from 0 to MaxCol.
MaxCol == 2
\* Calls made on one Text.
MaxCalls == 2
\* Width of a usize in the model, for the arithmetic that can wrap.
UsizeBits == 16
\* Longest string handed to the line scanner on its own.
MaxScanLen == 5
\* Codepoints of a line handed to the column translation on its own, and the columns
\* tried on it (0 to MaxNth).
MaxLineChars == 2
MaxNth == 9
\* Lines and characters of the positions of a content-change event go from 0 to these.
MaxLine == 1
MaxCharacter == 1
\* Index vectors handed to replace_indexes have up to MaxEntries offsets after the
\* leading 0, each at most MaxOffset; a replacement has up to MaxReplacement items.
MaxOffset == 2
MaxEntries == 3
MaxReplacement == 3

-----------------------------------------------------------------------------
(* Bytes *)

RC == "\r"
BR == "\n"
Bytes == {"a", BR, RC}

\* Option::None of a usize
None == -1

Min(a, b) == IF a < b THEN a ELSE b

\* Rust's s[a..b]
Slice(s, a, b) == SubSeq(s, a + 1, b)

\* Rust's s[i]
At(s, i) == s[i + 1]

RECURSIVE SeqsUpTo(_, _)
SeqsUpTo(S, n) ==
    IF n = 0 THEN {<<>>}
    ELSE LET shorter == SeqsUpTo(S, n - 1)
         IN shorter \cup {Append(s, b) : s \in {x \in shorter : Len(x) = n - 1}, b \in S}

-----------------------------------------------------------------------------
(* core::lines::FastEOL *)

\* memchr2_iter: the first index >= from holding RC or BR, or None
RECURSIVE Memchr2(_, _)
Memchr2(haystack, from) ==
    IF from >= Len(haystack) THEN None
    ELSE IF At(haystack, from) \in {RC, BR} THEN from
    ELSE Memchr2(haystack, from + 1)

\* The items next() yields from the iterator state (iter at `from`, field r).
RECURSIVE FastEOLNext(_, _, _)
FastEOLNext(haystack, from, r) ==
    LET n == Memchr2(haystack, from)
    IN IF n = None
       THEN (IF r = None THEN <<>> ELSE <<r>>)
       ELSE IF At(haystack, n) = RC
            THEN IF r # None /\ r + 1 = n
                 THEN <<n>> \o FastEOLNext(haystack, n + 1, n)
                 ELSE IF n + 1 < Len(haystack) /\ At(haystack, n + 1) = BR
                      THEN <<n + 1>> \o FastEOLNext(haystack, n + 2, r)
                      ELSE <<n>> \o FastEOLNext(haystack, n + 1, r)
            ELSE <<n>> \o FastEOLNext(haystack, n + 1, None)

\* A scanner that does not look at the byte after a '\r': the variant that yields the
\* index of every '\r' and every '\n'.
FastEOLEveryByte(haystack) ==
    LET RECURSIVE From(_)
        From(i) == IF Memchr2(haystack, i) = None THEN <<>>
                   ELSE <<Memchr2(haystack, i)>> \o From(Memchr2(haystack, i) + 1)
    IN From(0)

\* FastEOL::new(haystack).collect()
FastEOL(haystack) == FastEOLNext(haystack, 0, None)

\* The map left out: the variant in which the offsets found in s are not moved to
\* where s lands in the text.
MapAddNothing(seq, by) == seq

\* .map(|i| i + by)
MapAdd(seq, by) == [i \in 1..Len(seq) |-> seq[i] + by]

-----------------------------------------------------------------------------
(* core::eol_indexes::EolIndexes *)

EolIndexesNew(s) == <<0>> \o FastEOL(s)

row_count(br) == Len(br)

row_start(br, row) ==
    IF row < Len(br) THEN At(br, row) + (IF row # 0 THEN 1 ELSE 0) ELSE None

is_last_row(br, row) == row_count(br) - 1 = row

last_row_start(br) == row_start(br, row_count(br) - 1)

\* Vec::insert
insert_index(br, at, index) ==
    Slice(br, 0, at) \o <<index>> \o Slice(br, at, Len(br))

\* slice::rotate_right(k) on v[from..]
RotateRightFrom(v, from, k) ==
    LET tail == Slice(v, from, Len(v))
        n == Len(tail)
    IN Slice(v, 0, from) \o Slice(tail, n - k, n) \o Slice(tail, 0, n - k)

\* slice::rotate_left(k) on v[from..]
RotateLeftFrom(v, from, k) ==
    LET tail == Slice(v, from, Len(v))
        n == Len(tail)
    IN Slice(v, 0, from) \o Slice(tail, k, n) \o Slice(tail, 0, k)

\* extend, then rotate the appended items into place; the range of the inserted items
insert_indexes(br, at, indexes) ==
    LET old_len == row_count(br)
        extended == br \o indexes
        new_len == row_count(extended)
    IN [br |-> RotateRightFrom(extended, at, new_len - old_len),
        from |-> at,
        to |-> at + (new_len - old_len)]

\* remove_indexes with the drain starting at `start` rather than `start + 1`: the
\* variant that would take the entry of the row the deletion starts in, the leading 0
\* included.
remove_indexes_from_start(br, start, end) ==
    IF start > end THEN br
    ELSE Slice(br, 0, start) \o Slice(br, end + 1, Len(br))

remove_indexes(br, start, end) ==
    IF start + 1 > end THEN br
    ELSE Slice(br, 0, start + 1) \o Slice(br, end + 1, Len(br))

\* Overwrite in place, append what is left, rotate once; the range returned.
replace_indexes(br, start, end, replacement) ==
    LET replacing_len == end - start
        i == Min(replacing_len, Len(replacement))
        overwritten == [k \in 1..Len(br) |->
                          IF k - 1 >= start + 1 /\ k - 1 < start + 1 + i
                          THEN replacement[k - 1 - start]
                          ELSE br[k]]
        rotate_start == IF i < replacing_len THEN end - (replacing_len - i) + 1 ELSE end + 1
        cur_len == row_count(overwritten)
        extended == overwritten \o Slice(replacement, i, Len(replacement))
        insert_count == row_count(extended) - cur_len
        result == IF insert_count = 0
                  THEN LET rotated == RotateLeftFrom(extended, start + 1 + i, replacing_len - i)
                           new_len == row_count(extended) - (replacing_len - i)
                       IN Slice(rotated, 0, new_len)
                  ELSE RotateRightFrom(extended, rotate_start, insert_count)
    IN [br |-> result, from |-> start + 1, to |-> start + 1 + insert_count]

\* add_offsets with the shift starting at `row` rather than `row + 1`: the variant
\* that would also move the entry that ends the row before the insertion.
add_offsets_from_row(br, row, by) ==
    IF row >= row_count(br) THEN br
    ELSE [k \in 1..Len(br) |-> IF k - 1 >= row THEN br[k] + by ELSE br[k]]

add_offsets(br, row, by) ==
    IF row >= row_count(br) THEN br
    ELSE [k \in 1..Len(br) |-> IF k - 1 >= row + 1 THEN br[k] + by ELSE br[k]]

\* sub_offsets with the shift starting at `row` rather than `row + 1`: the variant
\* that would also move the entry that ends the row before the deletion.
sub_offsets_from_row(br, row, by) ==
    IF row >= row_count(br) THEN br
    ELSE [k \in 1..Len(br) |->
            IF k - 1 >= row THEN (br[k] - by) % (2 ^ UsizeBits) ELSE br[k]]

\* TRUE when `*bi -= by` would take some entry below zero
SubOffsetsUnderflows(br, row, by) ==
    /\ row < row_count(br)
    /\ \E k \in 1..Len(br) : k - 1 >= row + 1 /\ br[k] < by

\* `*bi -= by`; an entry below `by` wraps around where overflow checks are off
sub_offsets(br, row, by) ==
    IF row >= row_count(br) THEN br
    ELSE [k \in 1..Len(br) |->
            IF k - 1 >= row + 1 THEN (br[k] - by) % (2 ^ UsizeBits) ELSE br[k]]

-----------------------------------------------------------------------------
(* core::encodings *)

\* The bytes that continue a multi-byte codepoint.
ContinuationBytes == {"\\x80"}

\* str::is_char_boundary
is_char_boundary(s, n) ==
    \/ n = 0
    \/ n = Len(s)
    \/ n < Len(s) /\ At(s, n) \notin ContinuationBytes

\* utf8::exclusive that clamps: the variant in which a column past the line becomes
\* the end of the line.
utf8_exclusive_clamped(s, nth) == [result |-> "ok", col |-> Min(nth, Len(s))]

\* utf8::exclusive: the column is a byte offset already
utf8_exclusive(s, nth) ==
    IF Len(s) < nth THEN [result |-> "OutOfBoundsColumn", col |-> nth]
    ELSE IF ~is_char_boundary(s, nth) THEN [result |-> "InBetweenCharBoundries", col |-> nth]
    ELSE [result |-> "ok", col |-> nth]

\* s.char_indices(): the byte offsets at which the codepoints of s start
char_indices(s) ==
    LET RECURSIVE From(_)
        From(i) == IF i >= Len(s) THEN <<>>
                   ELSE IF At(s, i) \in ContinuationBytes THEN From(i + 1)
                   ELSE <<i>> \o From(i + 1)
    IN From(0)

\* char::len_utf8 of the codepoint that starts at byte i of s
len_utf8(s, i) ==
    LET RECURSIVE Cont(_)
        Cont(j) == IF j < Len(s) /\ At(s, j) \in ContinuationBytes THEN 1 + Cont(j + 1)
                   ELSE 0
    IN 1 + Cont(i + 1)

\* char::len_utf16 of the codepoint that starts at byte i of s: two units for a
\* codepoint of four bytes, one otherwise
len_utf16(s, i) == IF len_utf8(s, i) = 4 THEN 2 ELSE 1

\* utf16::exclusive: the loop over the codepoints, then the column one past the
\* units of s, which is returned as it is
utf16_exclusive(s, nth) ==
    LET chars == char_indices(s)
        RECURSIVE Loop(_, _)
        Loop(j, total_code_points) ==
            IF j > Len(chars)
            THEN IF total_code_points + 1 = nth THEN [result |-> "ok", col |-> nth]
                 ELSE [result |-> "OutOfBoundsColumn", col |-> nth]
            ELSE IF total_code_points > nth
            THEN [result |-> "InBetweenCharBoundries", col |-> nth]
            ELSE IF total_code_points + len_utf16(s, chars[j]) = nth
            THEN [result |-> "ok", col |-> chars[j] + len_utf8(s, chars[j])]
            ELSE Loop(j + 1, total_code_points + len_utf16(s, chars[j]))
    IN IF nth = 0 THEN [result |-> "ok", col |-> 0] ELSE Loop(1, 0)

\* utf32::exclusive: the byte offset of the nth codepoint; past the last one, the
\* column counter + 1 gives s.len()
utf32_exclusive(s, nth) ==
    LET chars == char_indices(s)
        counter == Len(chars)
    IN IF nth < counter THEN [result |-> "ok", col |-> chars[nth + 1]]
       ELSE IF counter + 1 = nth THEN [result |-> "ok", col |-> Len(s)]
       ELSE [result |-> "OutOfBoundsColumn", col |-> nth]

\* The encodings a Text is constructed for
Encodings == {"UTF8", "UTF16", "UTF32"}

\* (text.encoding[0])(pure_line, col)
EncodingFn(enc, s, nth) ==
    CASE enc = "UTF16" -> utf16_exclusive(s, nth)
      [] enc = "UTF32" -> utf32_exclusive(s, nth)
      [] OTHER -> utf8_exclusive(s, nth)

-----------------------------------------------------------------------------
(* change::GridIndex *)

GridIndex(r, c) == [row |-> r, col |-> c]

\* utils::trim_eol_from_end: strip one trailing "\r\n", "\n" or "\r"
trim_eol_from_end(line) ==
    LET n == Len(line)
    IN IF n >= 2 /\ At(line, n - 2) = RC /\ At(line, n - 1) = BR THEN Slice(line, 0, n - 2)
       ELSE IF n >= 1 /\ At(line, n - 1) \in {BR, RC} THEN Slice(line, 0, n - 1)
       ELSE line

\* The br_indexes after the row == row_count branch of normalize
NormalizeAppendIndex(br, row) == insert_index(br, row, last_row_start(br))

\* An outcome of normalize: its result, the text and the index it leaves, the position
NormOutcome(result, t, br, pos) == [result |-> result, text |-> t, br |-> br, pos |-> pos]

\* GridIndex::normalize, the column: col becomes the UTF-8 byte offset in the line
normalize_col(t, br, enc, pos, pure_line) ==
    LET c == EncodingFn(enc, pure_line, pos.col)
    IN IF c.result # "ok" THEN NormOutcome(c.result, t, br, pos)
       ELSE NormOutcome("ok", t, br, GridIndex(pos.row, c.col))

\* GridIndex::normalize, the row: the line of the row, without its EOL bytes unless
\* the row is the last one.  Text's edits call normalize(self)?: a row that does not
\* exist and a column the encoding function rejects end the call with the error
\* named here; a row whose bounds do not fit the text, or are not char boundaries
\* of it, ends it with a panic (the str is sliced at them).
normalize_row(t, br, rc, enc, pos) ==
    LET rs == row_start(br, pos.row)
        sliced == ~is_last_row(br, pos.row) /\ rc > 1
        re == IF sliced THEN row_start(br, pos.row + 1) ELSE Len(t)
    IN IF rs = None THEN NormOutcome("OutOfBoundsRow", t, br, pos)
       ELSE IF rs > re \/ re > Len(t) THEN NormOutcome("panic", t, br, pos)
       ELSE IF ~is_char_boundary(t, rs) \/ ~is_char_boundary(t, re)
       THEN NormOutcome("panic", t, br, pos)
       ELSE normalize_col(t, br, enc, pos,
                          IF sliced THEN trim_eol_from_end(Slice(t, rs, re))
                          ELSE Slice(t, rs, re))

\* GridIndex::normalize on (text.text, text.br_indexes): a position at row_count()
\* first appends a line break to the text and an entry to the index
normalize(t, br, enc, pos) ==
    IF pos.row = row_count(br)
    THEN normalize_row(Append(t, BR), NormalizeAppendIndex(br, pos.row),
                       row_count(br) + 1, enc, pos)
    ELSE normalize_row(t, br, row_count(br), enc, pos)

\* GridIndex: Ord, by row and then by col
GridLess(a, b) == a.row < b.row \/ (a.row = b.row /\ a.col < b.col)

\* change::correct_positions: swap the endpoints when start > end
correct_positions(start, end) ==
    IF GridLess(end, start) THEN [start |-> end, end |-> start]
    ELSE [start |-> start, end |-> end]

\* lsp_types::Position
Position(line, character) == [line |-> line, character |-> character]

\* impl From<Position> for GridIndex
GridIndexFrom(position) == GridIndex(position.line, position.character)

\* lsp_types::TextDocumentContentChangeEvent: range is an Option<Range>
ChangeEvent(has_range, start, end, t) ==
    [has_range |-> has_range, start |-> start, end |-> end, text |-> t]

\* change::Change, one record for its four variants
Change(kind, start, end, t) == [kind |-> kind, start |-> start, end |-> end, text |-> t]

\* The conversion with its two tests exchanged: the variant that looks at
\* start == end before it looks at the text.
ChangeFromInsertFirst(value) ==
    IF ~value.has_range
    THEN Change("ReplaceFull", GridIndex(0, 0), GridIndex(0, 0), value.text)
    ELSE IF value.start = value.end
    THEN Change("Insert", GridIndexFrom(value.start), GridIndexFrom(value.start), value.text)
    ELSE IF value.text = <<>>
    THEN Change("Delete", GridIndexFrom(value.start), GridIndexFrom(value.end), <<>>)
    ELSE Change("Replace", GridIndexFrom(value.start), GridIndexFrom(value.end), value.text)

\* impl From<TextDocumentContentChangeEvent> for Change (and the one for the
\* reference, which differs in the borrow of the text only)
ChangeFrom(value) ==
    IF ~value.has_range
    THEN Change("ReplaceFull", GridIndex(0, 0), GridIndex(0, 0), value.text)
    ELSE IF value.text = <<>>
    THEN Change("Delete", GridIndexFrom(value.start), GridIndexFrom(value.end), <<>>)
    ELSE IF value.start = value.end
    THEN Change("Insert", GridIndexFrom(value.start), GridIndexFrom(value.start), value.text)
    ELSE Change("Replace", GridIndexFrom(value.start), GridIndexFrom(value.end), value.text)

-----------------------------------------------------------------------------
(* core::text::Text *)

\* What is remembered of a call; the value before the first call.
NoCall ==
    [op |-> "none", result |-> "none", s |-> <<>>,
     start |-> GridIndex(0, 0), end |-> GridIndex(0, 0),
     nstart |-> GridIndex(0, 0), nend |-> GridIndex(0, 0),
     text0 |-> <<>>, br0 |-> <<>>, old0 |-> <<>>,
     text1 |-> <<>>, br1 |-> <<>>, rows |-> 0,
     start_byte |-> 0, end_byte |-> 0,
     notified |-> 0, ctx_breaklines |-> <<>>, ctx_old_breaklines |-> <<>>,
     ctx_old_str |-> <<>>, ctx_inserted |-> <<>>, wrapped |-> FALSE,
     undoes |-> FALSE, undo_text |-> <<>>, undo_br |-> <<>>, enc0 |-> "none",
     normalised |-> FALSE, rstart |-> GridIndex(0, 0), rend |-> GridIndex(0, 0),
     err_max |-> 0, err_current |-> 0]

\* A call as submitted
Call(op, s, start, end, t, br, old) ==
    [NoCall EXCEPT !.op = op, !.s = s, !.start = start, !.end = end,
                   !.text0 = t, !.br0 = br, !.old0 = old]

\* The call with its normalised range, and the text and the index normalize left
Ranged(call, start, end, t, br, start_byte, end_byte) ==
    [call EXCEPT !.nstart = start, !.nend = end,
                 !.text1 = t, !.br1 = br, !.rows = row_count(br),
                 !.start_byte = start_byte, !.end_byte = end_byte]

\* The document a call leaves and what is remembered of the call
Outcome(t, br, old, call, result) ==
    [text |-> t, br |-> br, old |-> old, last |-> [call EXCEPT !.result = result]]

\* Error::oob_row(row_count, current)
oob_row(rc, current) == [max |-> rc - 1, current |-> current]

\* The call with the fields of the error it returns
Failed(call, err) == [call EXCEPT !.err_max = err.max, !.err_current = err.current]

\* The `?` on normalize: the row error is built from the row count normalize sees
NormFailed(n, old, call) ==
    {Outcome(n.text, n.br, old,
             IF n.result = "OutOfBoundsRow"
             THEN Failed(call, oob_row(row_count(n.br), n.pos.row))
             ELSE call,
             n.result)}

\* The call with the two positions as normalize returned them, before they are put
\* in order
Normalised(call, start, end) ==
    [call EXCEPT !.normalised = TRUE, !.rstart = start, !.rend = end]

\* Text::update_prep: old_br_indexes.clone_from(&br_indexes)
update_prep(br, old) == br

\* String::drain(start..end)
StringDrain(t, start, end) == Slice(t, 0, start) \o Slice(t, end, Len(t))

\* String::insert_str(idx, s)
StringInsertStr(t, idx, s) == Slice(t, 0, idx) \o s \o Slice(t, idx, Len(t))

\* fast_replace_range with the tail left where it was: the variant that grows or
\* shrinks the buffer and copies s, but never moves the bytes after range.end.
fast_replace_range_unshifted(t, start, end, s) ==
    LET len == Len(t)
        range_dif == end - start
        new_len == len - range_dif + Len(s)
    IN [k \in 1..new_len |->
          LET i == k - 1
          IN IF i >= start /\ i < start + Len(s) THEN At(s, i - start)
             ELSE IF i < len THEN At(t, i)
             ELSE "a"]

\* fast_replace_range: one move of the tail to dst, then the copy of s over
\* range.start..; the first new_len bytes of the buffer are the string.
fast_replace_range(t, start, end, s) ==
    LET len == Len(t)
        range_dif == end - start
        dst == IF range_dif < Len(s) THEN end + (Len(s) - range_dif)
               ELSE IF range_dif > Len(s) THEN end - (range_dif - Len(s))
               ELSE end
        src_end == IF range_dif = Len(s) THEN end ELSE len
        new_len == IF range_dif < Len(s) THEN len + (Len(s) - range_dif)
                   ELSE IF range_dif > Len(s) THEN len - (range_dif - Len(s))
                   ELSE len
    IN [k \in 1..new_len |->
          LET i == k - 1
          IN IF i >= start /\ i < start + Len(s) THEN At(s, i - start)
             ELSE IF i >= dst /\ i < dst + (src_end - end) THEN At(t, end + (i - dst))
             ELSE At(t, i)]

\* updateable.update(UpdateContext {..}): what the observer is handed
Notify(call, br, old, t, inserted) ==
    [call EXCEPT !.notified = @ + 1, !.ctx_breaklines = br, !.ctx_old_breaklines = old,
                 !.ctx_old_str = t, !.ctx_inserted = inserted]

\* Text::delete, from the observer on: update(..)? and text.drain(byte_range)
delete_notify(t, br, old, call, start_byte, end_byte, obs_fails) ==
    IF obs_fails THEN {Outcome(t, br, old, Notify(call, br, old, t, <<>>), "observer_err")}
    ELSE IF end_byte > Len(t)
            \/ ~is_char_boundary(t, start_byte) \/ ~is_char_boundary(t, end_byte)
    THEN {Outcome(t, br, old, Notify(call, br, old, t, <<>>), "panic")}
    ELSE {Outcome(StringDrain(t, start_byte, end_byte), br, old,
                  Notify(call, br, old, t, <<>>), "ok")}

\* Text::delete, the index: remove_indexes and sub_offsets.  Where an entry is
\* below the offset, the build with overflow checks panics and the other one wraps.
delete_index(t, br, old, call, row, end_row, start_byte, end_byte, obs_fails) ==
    (IF SubOffsetsUnderflows(remove_indexes(br, row, end_row), row, end_byte - start_byte)
     THEN {Outcome(t, remove_indexes(br, row, end_row), old, call, "panic")}
     ELSE {})
    \cup
    delete_notify(t, sub_offsets(remove_indexes(br, row, end_row), row, end_byte - start_byte),
                  old,
                  [call EXCEPT !.wrapped = SubOffsetsUnderflows(
                       remove_indexes(br, row, end_row), row, end_byte - start_byte)],
                  start_byte, end_byte, obs_fails)

\* Text::delete, the byte range of the normalised positions
delete_range(t, br, old, call, start, end, obs_fails) ==
    LET row_start_index == row_start(br, start.row)
        row_end_index == row_start(br, end.row)
    IN IF row_start_index = None \/ row_end_index = None
       THEN {Outcome(t, br, old,
                     Failed(call, oob_row(row_count(br),
                                          IF row_start_index = None THEN start.row
                                          ELSE end.row)),
                     "OutOfBoundsRow")}
       ELSE IF row_end_index + end.col < row_start_index + start.col
       THEN {Outcome(t, br, old, call, "panic")}
       ELSE delete_index(t, br, old,
                         Ranged(call, start, end, t, br,
                                row_start_index + start.col, row_end_index + end.col),
                         start.row, end.row,
                         row_start_index + start.col, row_end_index + end.col, obs_fails)

\* Text::delete, after start.normalize(self)?
delete_end(n1, old, enc, call, end, obs_fails) ==
    LET n2 == normalize(n1.text, n1.br, enc, end)
    IN IF n2.result # "ok" THEN NormFailed(n2, old, call)
       ELSE delete_range(n2.text, n2.br, old, Normalised(call, n1.pos, n2.pos),
                         correct_positions(n1.pos, n2.pos).start,
                         correct_positions(n1.pos, n2.pos).end, obs_fails)

\* Text::delete: the outcomes of delete(start, end, updateable)
delete(t, br, old, enc, start, end, obs_fails) ==
    LET n1 == normalize(t, br, enc, start)
    IN IF n1.result # "ok"
       THEN NormFailed(n1, update_prep(br, old), Call("delete", <<>>, start, end, t, br, old))
       ELSE delete_end(n1, update_prep(br, old), enc,
                       Call("delete", <<>>, start, end, t, br, old), end, obs_fails)

\* insert with the text mutation moved in front of the `?`: the variant in which a
\* failed observer still has the string inserted.
insert_notify_committed(t, br, old, call, inserted, s, end_byte, obs_fails) ==
    IF end_byte > Len(t)
    THEN {Outcome(t, br, old, Notify(call, br, old, t, inserted), "panic")}
    ELSE {Outcome(StringInsertStr(t, end_byte, s), br, old,
                  Notify(call, br, old, t, inserted),
                  IF obs_fails THEN "observer_err" ELSE "ok")}

\* Text::insert, from the observer on: update(..)? and text.insert_str(end_byte, s)
insert_notify(t, br, old, call, inserted, s, end_byte, obs_fails) ==
    IF obs_fails
    THEN {Outcome(t, br, old, Notify(call, br, old, t, inserted), "observer_err")}
    ELSE IF end_byte > Len(t) \/ ~is_char_boundary(t, end_byte)
    THEN {Outcome(t, br, old, Notify(call, br, old, t, inserted), "panic")}
    ELSE {Outcome(StringInsertStr(t, end_byte, s), br, old,
                  Notify(call, br, old, t, inserted), "ok")}

\* Text::insert, the index: add_offsets, then insert_indexes of the scanned offsets
insert_index_at(t, br, old, call, s, row, end_byte, obs_fails) ==
    LET ins == insert_indexes(add_offsets(br, row, Len(s)), row + 1,
                              MapAdd(FastEOL(s), end_byte))
    IN insert_notify(t, ins.br, old, call, Slice(ins.br, ins.from, ins.to),
                     s, end_byte, obs_fails)

\* Text::insert, after at.normalize(self)?
insert_at(t, br, old, call, s, at, obs_fails) ==
    LET row_end_index == row_start(br, at.row)
    IN IF row_end_index = None
       THEN {Outcome(t, br, old, Failed(call, oob_row(row_count(br), at.row)),
                     "OutOfBoundsRow")}
       ELSE insert_index_at(t, br, old,
                            Ranged(call, at, at, t, br,
                                   row_end_index + at.col, row_end_index + at.col),
                            s, at.row, row_end_index + at.col, obs_fails)

\* Text::insert: the outcomes of insert(s, at, updateable)
insert(t, br, old, enc, s, at, obs_fails) ==
    LET n == normalize(t, br, enc, at)
    IN IF n.result # "ok"
       THEN NormFailed(n, update_prep(br, old), Call("insert", s, at, at, t, br, old))
       ELSE insert_at(n.text, n.br, update_prep(br, old),
                      Call("insert", s, at, at, t, br, old), s, n.pos, obs_fails)

\* Text::replace, from the observer on: update(..)? and fast_replace_range
replace_notify(t, br, old, call, inserted, s, start_byte, end_byte, obs_fails) ==
    IF obs_fails
    THEN {Outcome(t, br, old, Notify(call, br, old, t, inserted), "observer_err")}
    ELSE IF ~is_char_boundary(t, start_byte) \/ ~is_char_boundary(t, end_byte)
            \/ start_byte > Len(t) \/ end_byte > Len(t) \/ start_byte > end_byte
    THEN {Outcome(t, br, old, Notify(call, br, old, t, inserted), "panic")}
    ELSE {Outcome(fast_replace_range(t, start_byte, end_byte, s), br, old,
                  Notify(call, br, old, t, inserted), "ok")}

\* Text::replace, the spliced index: replace_indexes of the scanned offsets
replace_splice(t, br, old, call, s, row, end_row, start_byte, end_byte, obs_fails) ==
    LET rep == replace_indexes(br, row, end_row, MapAdd(FastEOL(s), start_byte))
    IN replace_notify(t, rep.br, old, call, Slice(rep.br, rep.from, rep.to),
                      s, start_byte, end_byte, obs_fails)

\* Text::replace, the shift of the rows after end.row by new_len - old_len.  Where
\* an entry is below the offset, the build with overflow checks panics and the
\* other one wraps.
replace_shift(t, br, old, call, s, row, end_row, start_byte, end_byte, obs_fails) ==
    LET old_len == end_byte - start_byte
        new_len == Len(s)
    IN IF old_len < new_len
       THEN replace_splice(t, add_offsets(br, end_row, new_len - old_len), old, call,
                           s, row, end_row, start_byte, end_byte, obs_fails)
       ELSE IF old_len > new_len
       THEN (IF SubOffsetsUnderflows(br, end_row, old_len - new_len)
             THEN {Outcome(t, br, old, call, "panic")}
             ELSE {})
            \cup
            replace_splice(t, sub_offsets(br, end_row, old_len - new_len), old,
                           [call EXCEPT !.wrapped =
                                SubOffsetsUnderflows(br, end_row, old_len - new_len)],
                           s, row, end_row, start_byte, end_byte, obs_fails)
       ELSE replace_splice(t, br, old, call, s, row, end_row, start_byte, end_byte,
                           obs_fails)

\* Text::replace, the byte range of the normalised positions
replace_range(t, br, old, call, s, start, end, obs_fails) ==
    LET row_start_index == row_start(br, start.row)
        row_end_index == row_start(br, end.row)
    IN IF row_start_index = None \/ row_end_index = None
       THEN {Outcome(t, br, old,
                     Failed(call, oob_row(row_count(br),
                                          IF row_start_index = None THEN start.row
                                          ELSE end.row)),
                     "OutOfBoundsRow")}
       ELSE IF row_end_index + end.col < row_start_index + start.col
       THEN {Outcome(t, br, old, call, "panic")}
       ELSE replace_shift(t, br, old,
                          Ranged(call, start, end, t, br,
                                 row_start_index + start.col, row_end_index + end.col),
                          s, start.row, end.row,
                          row_start_index + start.col, row_end_index + end.col, obs_fails)

\* Text::replace, after start.normalize(self)?
replace_end(n1, old, enc, call, s, end, obs_fails) ==
    LET n2 == normalize(n1.text, n1.br, enc, end)
    IN IF n2.result # "ok" THEN NormFailed(n2, old, call)
       ELSE replace_range(n2.text, n2.br, old, Normalised(call, n1.pos, n2.pos), s,
                          correct_positions(n1.pos, n2.pos).start,
                          correct_positions(n1.pos, n2.pos).end, obs_fails)

\* Text::replace: the outcomes of replace(s, start, end, updateable)
replace(t, br, old, enc, s, start, end, obs_fails) ==
    LET n1 == normalize(t, br, enc, start)
    IN IF n1.result # "ok"
       THEN NormFailed(n1, update_prep(br, old), Call("replace", s, start, end, t, br, old))
       ELSE replace_end(n1, update_prep(br, old), enc,
                        Call("replace", s, start, end, t, br, old), s, end, obs_fails)

\* Text::replace_full, from the observer on
replace_full_notify(t, br, old, call, s, obs_fails) ==
    IF obs_fails THEN {Outcome(t, br, old, Notify(call, br, old, t, <<>>), "observer_err")}
    ELSE {Outcome(s, br, old, Notify(call, br, old, t, <<>>), "ok")}

\* replace_full without `self.br_indexes = EolIndexes::new(&s)`: the variant that
\* swaps the text and keeps the index of the old one.
replace_full_keeping_index(t, br, old, s, obs_fails) ==
    replace_full_notify(t, br, old,
                        Ranged(Call("replace_full", s, GridIndex(0, 0), GridIndex(0, 0),
                                    t, br, old),
                               GridIndex(0, 0), GridIndex(0, 0), t, br, 0, Len(t)),
                        s, obs_fails)

\* Text::replace_full: the outcomes of replace_full(s, updateable)
replace_full(t, br, old, s, obs_fails) ==
    replace_full_notify(t, EolIndexesNew(s), old,
                        Ranged(Call("replace_full", s, GridIndex(0, 0), GridIndex(0, 0),
                                    t, br, old),
                               GridIndex(0, 0), GridIndex(0, 0), t, br, 0, Len(t)),
                        s, obs_fails)

-----------------------------------------------------------------------------
(* The state machine: a Text is constructed, then edited call by call. *)

\* The strings an edit inserts.
Strs == SeqsUpTo(Bytes, MaxStrLen)

\* The positions an edit is given: every column of the rows up to row_count(), and
\* column 0 of the rows past it.
Positions ==
    {GridIndex(r, c) : r \in 0..row_count(br_indexes), c \in 0..MaxCol}
    \cup {GridIndex(row_count(br_indexes) + k, 0) : k \in 1..RowSlack}

\* Text::new(text)
Init ==
    /\ text \in SeqsUpTo(Bytes, MaxInitLen)
    /\ br_indexes = EolIndexesNew(text)
    /\ old_br_indexes = <<>>
    /\ encoding = "UTF8"
    /\ last = NoCall
    /\ clean = TRUE
    /\ calls = 0

\* Text::new(text), Text::new_utf16(text) or Text::new_utf32(text)
InitEnc ==
    /\ text \in SeqsUpTo(Bytes, MaxInitLen)
    /\ br_indexes = EolIndexesNew(text)
    /\ old_br_indexes = <<>>
    /\ encoding \in Encodings
    /\ last = NoCall
    /\ clean = TRUE
    /\ calls = 0

\* A call is made on a Text that is not inside a call.
Running == last.op = "none" /\ calls < MaxCalls

Apply(o) ==
    /\ Len(o.text) <= MaxLen
    /\ text' = o.text
    /\ br_indexes' = o.br
    /\ old_br_indexes' = o.old
    /\ last' = [o.last EXCEPT !.enc0 = encoding]
    /\ clean' = (clean /\ o.last.result = "ok")
    /\ calls' = calls + 1
    /\ UNCHANGED encoding

\* A call of delete with an observer that fails or not, as `fails` allows
DeleteWith(fails) ==
    /\ Running
    /\ \E start \in Positions, end \in Positions, obs_fails \in fails :
         \E o \in delete(text, br_indexes, old_br_indexes, encoding, start, end, obs_fails) :
            Apply(o)

InsertWith(fails) ==
    /\ Running
    /\ \E s \in Strs, at \in Positions, obs_fails \in fails :
         \E o \in insert(text, br_indexes, old_br_indexes, encoding, s, at, obs_fails) :
            Apply(o)

ReplaceWith(fails) ==
    /\ Running
    /\ \E s \in Strs, start \in Positions, end \in Positions, obs_fails \in fails :
         \E o \in replace(text, br_indexes, old_br_indexes, encoding, s, start, end, obs_fails) :
            Apply(o)

ReplaceFullWith(fails) ==
    /\ Running
    /\ \E s \in Strs, obs_fails \in fails :
         \E o \in replace_full(text, br_indexes, old_br_indexes, s, obs_fails) :
            Apply(o)

\* The edits with an observer that never fails, such as `&mut ()`
Delete == DeleteWith({FALSE})

Insert == InsertWith({FALSE})

Replace == ReplaceWith({FALSE})

ReplaceFull == ReplaceFullWith({FALSE})

\* The call is over: its Result and the UpdateContext, which borrow the Text, are
\* dropped.  A call that panicked, or that let an index entry wrap, is not followed.
Forget ==
    /\ last.op # "none"
    /\ last.result # "panic"
    /\ ~last.wrapped
    /\ last' = NoCall
    /\ UNCHANGED <<text, br_indexes, old_br_indexes, encoding, clean, calls>>

Next == Delete \/ Insert \/ Replace \/ ReplaceFull \/ Forget

Spec == Init /\ [][Next]_vars

\* tree_sitter::Point
Point(row, column) == [row |-> row, column |-> column]

\* tree_sitter::InputEdit, with whether computing it panicked
InputEdit(result, start_byte, old_end_byte, new_end_byte, start_position, old_end_position, new_end_position) ==
    [result |-> result, start_byte |-> start_byte, old_end_byte |-> old_end_byte,
     new_end_byte |-> new_end_byte, start_position |-> start_position,
     old_end_position |-> old_end_position, new_end_position |-> new_end_position]

\* A computation that panicked
EditPanic == InputEdit("panic", 0, 0, 0, Point(0, 0), Point(0, 0), Point(0, 0))

\* A usize expression e that may go below zero: the build with overflow checks
\* panics, the other one wraps
UsizeOutcomes(e) == IF e < 0 THEN {None, e % (2 ^ UsizeBits)} ELSE {e}

\* edit_from_ctx, ChangeContext::Delete
edit_from_delete(old_br, start, end) ==
    IF row_start(old_br, start.row) = None \/ row_start(old_br, end.row) = None
    THEN {EditPanic}
    ELSE {InputEdit("ok", row_start(old_br, start.row) + start.col,
                    row_start(old_br, end.row) + end.col,
                    row_start(old_br, start.row) + start.col,
                    Point(start.row, start.col), Point(end.row, end.col),
                    Point(start.row, start.col))}

\* edit_from_ctx, ChangeContext::Insert with its start byte: the column of the new
\* end is text.len() less the bytes up to the last inserted break, or text.len(),
\* plus position.col, minus 1
edit_from_insert_at(start_byte, position, s, inserted) ==
    {IF column = None THEN EditPanic
     ELSE InputEdit("ok", start_byte, start_byte, start_byte + Len(s),
                    Point(position.row, position.col), Point(position.row, position.col),
                    Point(position.row + Len(inserted), column)) :
       column \in UsizeOutcomes((IF inserted = <<>> THEN Len(s)
                                 ELSE Len(s) - (inserted[Len(inserted)] - start_byte))
                                + position.col - 1)}

\* edit_from_ctx, ChangeContext::Insert
edit_from_insert(old_br, position, s, inserted) ==
    IF row_start(old_br, position.row) = None THEN {EditPanic}
    ELSE edit_from_insert_at(row_start(old_br, position.row) + position.col,
                             position, s, inserted)

\* edit_from_ctx, ChangeContext::Replace with its two bytes
edit_from_replace_at(start_byte, old_end_byte, start, end, s, inserted) ==
    IF inserted # <<>>
    THEN {IF column = None THEN EditPanic
          ELSE InputEdit("ok", start_byte, old_end_byte, start_byte + Len(s),
                         Point(start.row, start.col), Point(end.row, end.col),
                         Point(start.row + Len(inserted), column)) :
            column \in UsizeOutcomes(Len(s) - (inserted[Len(inserted)] - start_byte) - 1)}
    ELSE {InputEdit("ok", start_byte, old_end_byte, start_byte + Len(s),
                    Point(start.row, start.col), Point(end.row, end.col),
                    Point(start.row, start.col + Len(s)))}

\* edit_from_ctx, ChangeContext::Replace
edit_from_replace(old_br, start, end, s, inserted) ==
    IF row_start(old_br, start.row) = None \/ row_start(old_br, end.row) = None
    THEN {EditPanic}
    ELSE edit_from_replace_at(row_start(old_br, start.row) + start.col,
                              row_start(old_br, end.row) + end.col, start, end, s, inserted)

\* edit_from_ctx, ChangeContext::ReplaceFull
edit_from_replace_full(old_br, new_br, old_str, s) ==
    IF old_br = <<>> \/ new_br = <<>> THEN {EditPanic}
    ELSE {IF old_column = None \/ new_column = None THEN EditPanic
          ELSE InputEdit("ok", 0, Len(old_str), Len(s), Point(0, 0),
                         Point(row_count(old_br) - 1, old_column),
                         Point(row_count(new_br) - 1, new_column)) :
            old_column \in UsizeOutcomes(Len(old_str) - last_row_start(old_br)),
            new_column \in UsizeOutcomes(Len(s) - last_row_start(new_br))}

\* updateables::ts::edit_from_ctx: the InputEdit a Tree is given for an UpdateContext
edit_from_ctx(kind, old_br, new_br, old_str, start, end, s, inserted) ==
    CASE kind = "delete" -> edit_from_delete(old_br, start, end)
      [] kind = "insert" -> edit_from_insert(old_br, start, s, inserted)
      [] kind = "replace" -> edit_from_replace(old_br, start, end, s, inserted)
      [] OTHER -> edit_from_replace_full(old_br, new_br, old_str, s)

\* The edits of a Text of any of the three encodings
SpecEnc == InitEnc /\ [][Next]_vars

\* A string, before a Text is constructed from it
InitScan ==
    /\ text \in SeqsUpTo(Bytes, MaxScanLen)
    /\ br_indexes = <<>>
    /\ old_br_indexes = <<>>
    /\ encoding = "UTF8"
    /\ last = NoCall
    /\ clean = TRUE
    /\ calls = 0

\* Text::new(text): br_indexes is EolIndexes::new(&text), the sentinel followed by
\* what the scanner yields
TextNew ==
    /\ last.op = "none"
    /\ br_indexes' = EolIndexesNew(text)
    /\ last' = [NoCall EXCEPT !.op = "new", !.result = "ok", !.s = text]
    /\ UNCHANGED <<text, old_br_indexes, encoding, clean, calls>>

\* The line scanner run over a string
SpecScan == InitScan /\ [][TextNew]_vars

\* The positions of a content-change event
LspPositions == {Position(l, c) : l \in 0..MaxLine, c \in 0..MaxCharacter}

\* The content-change events a client sends: without a range, or with one
ChangeEvents ==
    {ChangeEvent(FALSE, Position(0, 0), Position(0, 0), s) : s \in Strs}
    \cup {ChangeEvent(TRUE, p, q, s) : p \in LspPositions, q \in LspPositions, s \in Strs}

\* A content-change event has arrived
InitLsp ==
    /\ text = <<>>
    /\ br_indexes = <<0>>
    /\ old_br_indexes = <<>>
    /\ encoding = "UTF16"
    /\ last \in {[op |-> "event", event |-> ev,
                  change |-> Change("none", GridIndex(0, 0), GridIndex(0, 0), <<>>)] :
                 ev \in ChangeEvents}
    /\ clean = TRUE
    /\ calls = 0

\* Change::from(event)
FromEvent ==
    /\ last.op = "event"
    /\ last' = [op |-> "change", event |-> last.event, change |-> ChangeFrom(last.event)]
    /\ UNCHANGED <<text, br_indexes, old_br_indexes, encoding, clean, calls>>

\* The conversion of content-change events
SpecLsp == InitLsp /\ [][FromEvent]_vars

\* Codepoints of one, two, three and four bytes in UTF-8: a lead byte and the
\* continuation bytes, which are all written "\\x80".  The last one takes two
\* UTF-16 code units.
CodePoints ==
    {<<"a">>, <<"\\xC3", "\\x80">>, <<"\\xE2", "\\x80", "\\x80">>,
     <<"\\xF0", "\\x80", "\\x80", "\\x80">>}

\* The strings of n codepoints
RECURSIVE StrsOfChars(_)
StrsOfChars(n) ==
    IF n = 0 THEN {<<>>} ELSE {c \o s : c \in CodePoints, s \in StrsOfChars(n - 1)}

\* The lines without terminator of up to MaxLineChars codepoints
UniLines == UNION {StrsOfChars(n) : n \in 0..MaxLineChars}

\* Text::new(line), Text::new_utf16(line) or Text::new_utf32(line) of a line without
\* terminator
InitCol ==
    /\ text \in UniLines
    /\ br_indexes = EolIndexesNew(text)
    /\ old_br_indexes = <<>>
    /\ encoding \in Encodings
    /\ last = NoCall
    /\ clean = TRUE
    /\ calls = 0

\* GridIndex{row: 0, col}.normalize(text): the column of the position is translated
\* by the encoding function of the Text
NormalizeCol ==
    /\ last.op = "none"
    /\ \E col \in 0..MaxNth :
         LET n == normalize(text, br_indexes, encoding, GridIndex(0, col))
         IN last' = [NoCall EXCEPT !.op = "normalize", !.result = n.result,
                                   !.start = GridIndex(0, col), !.nstart = n.pos,
                                   !.text0 = text, !.br0 = br_indexes, !.enc0 = encoding]
    /\ UNCHANGED <<text, br_indexes, old_br_indexes, encoding, clean, calls>>

\* The column translation of the three encodings on one line
SpecCol == InitCol /\ [][NormalizeCol]_vars

\* The texts of at most MaxLen bytes that hold a character of more than one byte: one
\* or two lines, with or without a line terminator between them
UniTexts ==
    {t \in {l1 \o e \o l2 : l1 \in UniLines, l2 \in UniLines, e \in {<<>>, <<BR>>, <<RC>>}} :
       Len(t) <= MaxLen /\ \E i \in 1..Len(t) : t[i] \notin Bytes}

\* Text::new(text), Text::new_utf16(text) or Text::new_utf32(text) of a text that is
\* not ASCII
InitUni ==
    /\ text \in UniTexts
    /\ br_indexes = EolIndexesNew(text)
    /\ old_br_indexes = <<>>
    /\ encoding \in Encodings
    /\ last = NoCall
    /\ clean = TRUE
    /\ calls = 0

\* The edits of a Text that is not ASCII, in any of the three encodings
SpecUni == InitUni /\ [][Next]_vars

\* BrIndexes::replace_indexes: Vec::splice(start + 1..=end, replacement), and the
\* range of the items the splice took from the iterator
splice_replace_indexes(br, start, end, replacement) ==
    [br |-> Slice(br, 0, start + 1) \o replacement \o Slice(br, end + 1, Len(br)),
     from |-> start + 1,
     to |-> start + 1 + Len(replacement)]

\* The index vectors: the leading 0 and up to MaxEntries offsets
IndexVectors == {<<0>> \o v : v \in SeqsUpTo(0..MaxOffset, MaxEntries)}

\* The replacements: up to MaxReplacement offsets, none of them an offset of an
\* index vector
Replacements == SeqsUpTo((MaxOffset + 1)..(MaxOffset + 2), MaxReplacement)

\* An EolIndexes, before replace_indexes is called on it
InitIndexes ==
    /\ text = <<>>
    /\ br_indexes \in IndexVectors
    /\ old_br_indexes = <<>>
    /\ encoding = "UTF8"
    /\ last = NoCall
    /\ clean = TRUE
    /\ calls = 0

\* EolIndexes::replace_indexes(start, end, replacement) with start <= end <
\* row_count(): the vector it leaves, and the range it returns in start_byte and
\* end_byte of the record of the call
ReplaceIndexes ==
    /\ last.op = "none"
    /\ \E end \in 0..(row_count(br_indexes) - 1), replacement \in Replacements :
         \E start \in 0..end :
            LET r == replace_indexes(br_indexes, start, end, replacement)
            IN /\ br_indexes' = r.br
               /\ last' = [NoCall EXCEPT !.op = "replace_indexes", !.result = "ok",
                                         !.br0 = br_indexes, !.s = replacement,
                                         !.start = GridIndex(start, 0),
                                         !.end = GridIndex(end, 0),
                                         !.start_byte = r.from, !.end_byte = r.to]
    /\ UNCHANGED <<text, old_br_indexes, encoding, clean, calls>>

\* EolIndexes::replace_indexes on index vectors
SpecIndexes == InitIndexes /\ [][ReplaceIndexes]_vars

\* The position just after a string s inserted at `at`, as a caller computes it from
\* s: k rows further down for the k line terminators of s, at the column that
\* follows the last of them.
PositionAfter(at, s) ==
    LET eols == FastEOL(s)
        k == Len(eols)
    IN IF k = 0 THEN GridIndex(at.row, at.col + Len(s))
       ELSE GridIndex(at.row + k, Len(s) - (eols[k] + 1))

\* The caller of an insert that returned Ok takes it back: it deletes the range from
\* the position of the insert to the position just after the inserted string.  The
\* document the insert was submitted on is remembered with the call.
DeleteInserted ==
    /\ last.op = "insert" /\ last.result = "ok" /\ ~last.wrapped
    /\ \E o \in delete(text, br_indexes, old_br_indexes, encoding,
                       last.start, PositionAfter(last.start, last.s), FALSE) :
          Apply([o EXCEPT !.last.undoes = TRUE,
                          !.last.undo_text = last.text0,
                          !.last.undo_br = last.br0,
                          !.last.s = last.s])

NextRoundTrip == Next \/ DeleteInserted

SpecRoundTrip == Init /\ [][NextRoundTrip]_vars

\* The edits with an observer that may fail
NextObs ==
    \/ DeleteWith(BOOLEAN)
    \/ InsertWith(BOOLEAN)
    \/ ReplaceWith(BOOLEAN)
    \/ ReplaceFullWith(BOOLEAN)
    \/ Forget

SpecObs == Init /\ [][NextObs]_vars

-----------------------------------------------------------------------------
(* Properties.  `last` holds the call that has just returned: text0 and br0 are the  *)
(* text and the index it was submitted on, text1 and br1 what normalize left of them *)
(* (the same, unless a position had row = row_count()), start_byte and end_byte the  *)
(* byte range of the normalised positions.                                          *)

\* C1 (I5, line-scanner equivalence): from any Text::new document, after every
\* sequence of successful insert / delete / replace / replace_full calls, 0 followed
\* by the line scan of the current text is exactly br_indexes.
C1_LineScannerEquivalence ==
    clean => br_indexes = EolIndexesNew(text)

\* C2 (I1): after any sequence of successful edits, every entry of br_indexes but the
\* first is the offset of a byte of the text, and that byte is '\n' or '\r'.
C2_EntriesPointAtEolBytes ==
    clean => \A k \in 2..Len(br_indexes) :
                /\ br_indexes[k] < Len(text)
                /\ At(text, br_indexes[k]) \in {BR, RC}

\* C3 (I2): after any sequence of successful edits, row_start(r) < row_start(r + 1)
\* for every r with r + 1 < row_count, and row_start(r) <= text.len() for every row.
C3_RowStartsIncrease ==
    clean => \A r \in 0..(row_count(br_indexes) - 1) :
                /\ row_start(br_indexes, r) <= Len(text)
                /\ r + 1 < row_count(br_indexes)
                     => row_start(br_indexes, r) < row_start(br_indexes, r + 1)

\* C4: after any sequence of edits, successful or failed, br_indexes has at least one
\* entry (row_count() >= 1) and its first entry is 0.
C4_SentinelAndRowCount ==
    /\ row_count(br_indexes) >= 1
    /\ At(br_indexes, 0) = 0

\* C4, its case: a deletion that starts in row 0 and ends in a later row has
\* returned Ok on a Text an earlier call had failed on; entries were drained from
\* position 1 and the rest were shifted down.
C4_Witness ==
    /\ last.op = "delete" /\ last.result = "ok" /\ ~clean
    /\ last.nstart.row = 0 /\ last.nend.row >= 1
    /\ last.start_byte < last.end_byte
    /\ row_count(last.br1) > last.nend.row + 1

\* A call returned one of the errors of a position.
PositionError ==
    last.result \in {"OutOfBoundsRow", "OutOfBoundsColumn", "InBetweenCharBoundries"}

\* C5: when insert, delete or replace returns an error of a position (row past the
\* end, column past the end of the line, column inside a codepoint), text and
\* br_indexes are what they were before the call, also when a position of the call
\* has row = row_count().
C5_PositionErrorLeavesDocument ==
    PositionError => text = last.text0 /\ br_indexes = last.br0

\* C6: after a successful replace(s, start, end) with byte range
\* start_byte..end_byte, the text is old[0..start_byte] ++ s ++ old[end_byte..], of
\* length old.len() - (end_byte - start_byte) + s.len(), whichever of s and the range
\* is the longer; old is the text the range was computed on.
C6_ReplaceIsReferenceSplice ==
    (last.op = "replace" /\ last.result = "ok") =>
        /\ text = Slice(last.text1, 0, last.start_byte) \o last.s
                    \o Slice(last.text1, last.end_byte, Len(last.text1))
        /\ Len(text) = Len(last.text1) - (last.end_byte - last.start_byte) + Len(last.s)

\* C6, its case: a replace returned Ok where s is longer than a non-empty range that
\* has bytes after it, so the tail was moved up and s copied in front of it.
C6_Witness ==
    /\ last.op = "replace" /\ last.result = "ok"
    /\ 0 < last.end_byte - last.start_byte
    /\ last.end_byte - last.start_byte < Len(last.s)
    /\ last.end_byte < Len(last.text1)

\* C7: after a successful delete(start, end) with start <= end, the text is the old
\* text without the bytes start_byte..end_byte, the index has lost exactly its
\* entries at positions start.row + 1 ..= end.row, and every entry left at a position
\* after start.row is its old value less end_byte - start_byte.
C7_DeleteRemovesBytesAndLines ==
    (last.op = "delete" /\ last.result = "ok") =>
        LET d == last.nend.row - last.nstart.row
            by == last.end_byte - last.start_byte
        IN /\ last.start_byte = row_start(last.br1, last.nstart.row) + last.nstart.col
           /\ last.end_byte = row_start(last.br1, last.nend.row) + last.nend.col
           /\ text = StringDrain(last.text1, last.start_byte, last.end_byte)
           /\ Len(br_indexes) = Len(last.br1) - d
           /\ \A k \in 1..Len(br_indexes) :
                br_indexes[k] = IF k - 1 <= last.nstart.row THEN last.br1[k]
                                ELSE last.br1[k + d] - by

\* C8: after a successful insert(s, at) with insert_byte = row_start(at.row) + at.col,
\* the text is old[0..insert_byte] ++ s ++ old[insert_byte..]; the index holds, at
\* positions at.row + 1 .. at.row + 1 + k, the k line-terminator offsets of s plus
\* insert_byte, in order; every entry that was after position at.row is after them,
\* increased by s.len(); the entries up to at.row are unchanged.
C8_InsertPlacesTextAndOffsets ==
    (last.op = "insert" /\ last.result = "ok") =>
        LET eols == FastEOL(last.s)
            k == Len(eols)
            row == last.nstart.row
        IN /\ last.start_byte = row_start(last.br1, row) + last.nstart.col
           /\ text = StringInsertStr(last.text1, last.start_byte, last.s)
           /\ Len(br_indexes) = Len(last.br1) + k
           /\ last.ctx_inserted = MapAdd(eols, last.start_byte)
           /\ \A j \in 1..Len(br_indexes) :
                br_indexes[j] = IF j - 1 <= row THEN last.br1[j]
                                ELSE IF j - 1 <= row + k THEN eols[j - 1 - row] + last.start_byte
                                ELSE last.br1[j - k] + Len(last.s)

\* C8, its case: an insert returned Ok whose string holds two line terminators and
\* whose row is followed by another, so offsets were spliced in and an entry shifted.
C8_Witness ==
    /\ last.op = "insert" /\ last.result = "ok"
    /\ Len(FastEOL(last.s)) = 2
    /\ row_count(last.br1) > last.nstart.row + 1

\* C9: an insert of s at (row_count(), 0) is accepted on any document; the text it
\* leaves is old ++ "\n" ++ s and the index is the line scan of that text.  From "x",
\* inserting "y" at (1, 0) gives "x\ny" and the index [0, 1].
C9_InsertPastEndOfFile ==
    (last.op = "insert" /\ last.start = GridIndex(row_count(last.br0), 0)) =>
        /\ last.result = "ok"
        /\ text = last.text0 \o <<BR>> \o last.s
        /\ br_indexes = EolIndexesNew(text)

\* C10: in every successful edit the observer's update is called exactly once, with
\* breaklines equal to the index the document has when the edit returns and old_str
\* equal to the text as it was when the edit was submitted.
C10_ObserverSeesPreTextPostIndex ==
    last.result = "ok" =>
        /\ last.notified = 1
        /\ last.ctx_breaklines = br_indexes
        /\ last.ctx_old_str = last.text0

\* C11: in every edit of every kind (delete, insert, replace, replace_full), the
\* old_breaklines handed to the observer is the index the document had when that edit
\* started, never the snapshot of an earlier edit and never the empty initial value.
C11_OldBreaklinesIsIndexBeforeEdit ==
    last.notified >= 1 => last.ctx_old_breaklines = last.br0

\* The outcomes of the call in `last`, made again on the document it was submitted
\* on, with an observer that does not fail.
SameCallObserved ==
    CASE last.op = "delete" ->
           delete(last.text0, last.br0, last.old0, encoding, last.start, last.end, FALSE)
      [] last.op = "insert" ->
           insert(last.text0, last.br0, last.old0, encoding, last.s, last.start, FALSE)
      [] last.op = "replace" ->
           replace(last.text0, last.br0, last.old0, encoding, last.s, last.start, last.end,
                   FALSE)
      [] last.op = "replace_full" ->
           replace_full(last.text0, last.br0, last.old0, last.s, FALSE)
      [] OTHER -> {}

\* C12: when the observer's update fails during an edit, the failure is returned and
\* the text mutation of the edit is applied all the same: text and index are those
\* the edit leaves when the observer succeeds.
C12_ObserverFailureCommitsEdit ==
    last.result = "observer_err" =>
        \E o \in SameCallObserved :
            /\ o.last.result = "ok"
            /\ o.br = br_indexes
            /\ o.text = text

\* C12, as the code has it: when the observer's update fails during an edit, the
\* failure is returned after one call of the observer, the index is the one the edit
\* leaves when the observer succeeds, and the byte mutation of the edit is not
\* applied: the text is the one normalize left.
C12_ObserverFailureSkipsTextMutation ==
    last.result = "observer_err" =>
        /\ last.notified = 1
        /\ text = last.text1
        /\ last.ctx_breaklines = br_indexes
        /\ \E o \in SameCallObserved : o.last.result = "ok" /\ o.br = br_indexes

\* C12, its case: the observer failed in an insert of a string with a line
\* terminator, so the index has grown and the text has not.
C12_Witness ==
    /\ last.op = "insert" /\ last.result = "observer_err"
    /\ Len(FastEOL(last.s)) >= 1
    /\ Len(br_indexes) > Len(last.br1)
    /\ text = last.text1

\* C13: when the observer's update fails during insert, delete, replace or
\* replace_full, the call returns that error with the index at its post-edit value
\* and the text bytes as they were before the edit.
C13_ObserverFailureLeavesTextAsSubmitted ==
    last.result = "observer_err" =>
        /\ text = last.text0
        /\ \E o \in SameCallObserved : o.last.result = "ok" /\ o.br = br_indexes

\* C14: in every insert and every replace, the inserted_br_indexes handed to the
\* observer holds one entry per line terminator of the inserted text, the terminator's
\* offset in that text plus the start byte of the edit, in order; also when the range
\* of a replace spans several rows.
C14_InsertedSliceIsComplete ==
    (last.op \in {"insert", "replace"} /\ last.notified >= 1) =>
        last.ctx_inserted = MapAdd(FastEOL(last.s), last.start_byte)

\* C15: in every insert or replace of s at start byte b, the inserted_br_indexes
\* handed to the observer is strictly increasing and each entry x has
\* b <= x < b + s.len().
C15_InsertedSliceWithinInsertedText ==
    (last.op \in {"insert", "replace"} /\ last.notified >= 1) =>
        /\ \A j \in 1..Len(last.ctx_inserted) :
             /\ last.start_byte <= last.ctx_inserted[j]
             /\ last.ctx_inserted[j] < last.start_byte + Len(last.s)
        /\ \A j \in 1..(Len(last.ctx_inserted) - 1) :
             last.ctx_inserted[j] < last.ctx_inserted[j + 1]

\* C15, its case: the observer of a replace whose range spans rows and does not start
\* at byte 0 was handed a slice that is not empty.
C15_Witness ==
    /\ last.op = "replace" /\ last.result = "ok"
    /\ last.nend.row > last.nstart.row
    /\ last.start_byte > 0
    /\ Len(last.ctx_inserted) >= 1

C17_ReplaceFullEqualsNew ==
    (last.op = "replace_full" /\ last.result = "ok") =>
        /\ encoding = last.enc0
        /\ br_indexes = EolIndexesNew(last.s)
        /\ text = last.s

\* C17, its case: replace_full returned Ok, with a string that has a line
\* terminator, on a document whose index an earlier call had left different from the
\* line scan of its text.
C17_Witness ==
    /\ last.op = "replace_full" /\ last.result = "ok"
    /\ last.enc0 = "UTF16"
    /\ last.br0 # EolIndexesNew(last.text0)
    /\ Len(FastEOL(last.s)) >= 1

\* The outcomes of the delete or replace in `last`, made on the document it was
\* submitted on with its two endpoints exchanged.
ExchangedCall ==
    CASE last.op = "delete" ->
           delete(last.text0, last.br0, last.old0, encoding, last.end, last.start, FALSE)
      [] last.op = "replace" ->
           replace(last.text0, last.br0, last.old0, encoding, last.s, last.end, last.start,
                   FALSE)
      [] OTHER -> {}

\* start > end, for the two positions normalize returned
ReversedRange ==
    /\ last.op \in {"delete", "replace"}
    /\ last.normalised
    /\ \/ last.rstart.row > last.rend.row
       \/ last.rstart.row = last.rend.row /\ last.rstart.col > last.rend.col

\* C18: a delete or replace called with start > end (after normalisation) succeeds,
\* and its text, its EOL index and what its observer is handed are those of the same
\* call with the two endpoints exchanged.
C18_ReversedRangeIsSwapped ==
    ReversedRange =>
        /\ last.result = "ok"
        /\ \E o \in ExchangedCall :
             /\ o.last.result = "ok"
             /\ o.text = text
             /\ o.br = br_indexes
             /\ o.last.notified = last.notified
             /\ o.last.nstart = last.nstart
             /\ o.last.nend = last.nend
             /\ o.last.ctx_breaklines = last.ctx_breaklines
             /\ o.last.ctx_old_breaklines = last.ctx_old_breaklines
             /\ o.last.ctx_old_str = last.ctx_old_str
             /\ o.last.ctx_inserted = last.ctx_inserted

\* The positions of the call in `last`
CallPositions ==
    IF last.op = "insert" THEN {last.start} ELSE {last.start, last.end}

\* C19: an edit whose position has row > row_count() fails with
\* OutOfBoundsRow{max: row_count() - 1, current: row}, its other position being at
\* column 0 of a row up to row_count(); and an edit whose positions all have
\* row <= row_count() does not fail with OutOfBoundsRow.
C19_RowBounds ==
    last.op \in {"delete", "insert", "replace"} =>
        /\ (/\ \E p \in CallPositions : p.row > row_count(last.br0)
            /\ \A p \in CallPositions : p.row <= row_count(last.br0) => p.col = 0)
           => /\ last.result = "OutOfBoundsRow"
              /\ last.err_max = row_count(last.br0) - 1
              /\ \E p \in CallPositions :
                    p.row > row_count(last.br0) /\ last.err_current = p.row
        /\ (\A p \in CallPositions : p.row <= row_count(last.br0))
           => last.result # "OutOfBoundsRow"

\* The units of s in an encoding: bytes, UTF-16 code units or codepoints
Units(enc, s) ==
    LET chars == char_indices(s)
        RECURSIVE Sum16(_)
        Sum16(j) == IF j > Len(chars) THEN 0 ELSE len_utf16(s, chars[j]) + Sum16(j + 1)
    IN CASE enc = "UTF16" -> Sum16(1)
         [] enc = "UTF32" -> Len(chars)
         [] OTHER -> Len(s)

\* The bounds of a row of the index lie in the text
RowInText(t, br, row) ==
    /\ row < row_count(br)
    /\ row_start(br, row) <= Len(t)
    /\ ~is_last_row(br, row) =>
          /\ row_start(br, row) <= row_start(br, row + 1)
          /\ row_start(br, row + 1) <= Len(t)

\* The line of a row without its EOL bytes
PureLine(t, br, row) ==
    IF is_last_row(br, row) THEN trim_eol_from_end(Slice(t, row_start(br, row), Len(t)))
    ELSE trim_eol_from_end(Slice(t, row_start(br, row), row_start(br, row + 1)))

\* C20: in each of the three encodings, an insert at a row of the document with a
\* column strictly greater than the units of the row's EOL-stripped line, one past
\* them included, fails with OutOfBoundsColumn.
C20_ColumnOutOfBoundsRejected ==
    (/\ last.op = "insert"
     /\ RowInText(last.text0, last.br0, last.start.row)
     /\ last.start.col > Units(last.enc0, PureLine(last.text0, last.br0, last.start.row)))
    => last.result = "OutOfBoundsColumn"

\* The slice of a row that normalize hands to the encoding function: without its EOL
\* bytes, unless the row is the last one
NormLine(t, br, row) ==
    IF ~is_last_row(br, row) /\ row_count(br) > 1
    THEN trim_eol_from_end(Slice(t, row_start(br, row), row_start(br, row + 1)))
    ELSE Slice(t, row_start(br, row), Len(t))

TerminatorOffsets(s) ==
    {i \in 0..(Len(s) - 1) :
        \/ At(s, i) = BR
        \/ At(s, i) = RC /\ ~(i + 1 < Len(s) /\ At(s, i + 1) = BR)}

\* C25: for every byte string, the scanner yields, in strictly increasing order,
\* exactly the index of every '\n' (once, also after a '\r') and of every '\r' that
\* is not immediately followed by '\n'.
C25_ScannerYieldsTerminators ==
    last.op = "new" =>
        /\ Len(br_indexes) = Cardinality(TerminatorOffsets(text)) + 1
        /\ {br_indexes[k] : k \in 2..Len(br_indexes)} = TerminatorOffsets(text)
        /\ \A k \in 2..(Len(br_indexes) - 1) : br_indexes[k] < br_indexes[k + 1]

\* C25, its case: two lone '\r', then a "\r\n", then a '\n', scanned.
C25_Witness ==
    /\ last.op = "new"
    /\ text = <<RC, RC, RC, BR, BR>>
    /\ br_indexes = <<0, 0, 1, 3, 4>>

\* TextLines: the bounds of row r lie in the text, so that slicing it does not panic
RowSliceFits(t, br, r) ==
    LET rs == row_start(br, r)
        re == IF is_last_row(br, r) THEN Len(t) ELSE row_start(br, r + 1)
    IN rs <= re /\ re <= Len(t)

\* TextLines: the slice of row r with its terminator
RowSlice(t, br, r) ==
    Slice(t, row_start(br, r), IF is_last_row(br, r) THEN Len(t) ELSE row_start(br, r + 1))

\* Option<&str>
Some(s) == [some |-> TRUE, s |-> s]

NoneStr == [some |-> FALSE, s |-> <<>>]

\* Text::lines: one slice per row, each stripped of its trailing EOL; the slices up
\* to the first row whose slicing panics
Lines(t, br) ==
    [k \in 1..row_count(br) |-> trim_eol_from_end(RowSlice(t, br, k - 1))]

\* Text::get_row(nth): self.lines().nth(nth)
get_row(t, br, nth) ==
    IF nth < row_count(br) THEN Some(Lines(t, br)[nth + 1]) ELSE NoneStr

\* The concatenation of a sequence of strings
RECURSIVE Concat(_)
Concat(ss) == IF ss = <<>> THEN <<>> ELSE Head(ss) \o Concat(Tail(ss))

\* C26: on every document an edit sequence reaches, lines() yields row_count()
\* slices (no row's slicing panics), none of them holds a terminator byte, the slices
\* with their stripped terminators put back concatenate to the text, and get_row(r)
\* is the r-th slice, None exactly for r >= row_count().
C26_LinesCoverText ==
    last.result \in {"none", "ok"} =>
        /\ \A r \in 0..(row_count(br_indexes) - 1) : RowSliceFits(text, br_indexes, r)
        /\ Len(Lines(text, br_indexes)) = row_count(br_indexes)
        /\ \A k \in 1..row_count(br_indexes) :
             /\ \A i \in 1..Len(Lines(text, br_indexes)[k]) :
                  Lines(text, br_indexes)[k][i] \notin {BR, RC}
             /\ get_row(text, br_indexes, k - 1) = Some(Lines(text, br_indexes)[k])
        /\ Concat([k \in 1..row_count(br_indexes) |-> RowSlice(text, br_indexes, k - 1)])
              = text
        /\ \A r \in row_count(br_indexes)..(row_count(br_indexes) + RowSlack) :
             get_row(text, br_indexes, r) = NoneStr

\* C27: a content-change event with no range maps to ReplaceFull(text), also when
\* the text is empty; otherwise one with empty text maps to Delete{start, end}, also
\* when start == end; otherwise one with start == end maps to Insert{at: start,
\* text}; otherwise it maps to Replace{start, end, text}; line and character are
\* copied into row and col.
C27_ChangeEventMapping ==
    last.op = "change" =>
        /\ ~last.event.has_range =>
              last.change.kind = "ReplaceFull" /\ last.change.text = last.event.text
        /\ (last.event.has_range /\ last.event.text = <<>>) =>
              /\ last.change.kind = "Delete"
              /\ last.change.start = GridIndex(last.event.start.line,
                                               last.event.start.character)
              /\ last.change.end = GridIndex(last.event.end.line, last.event.end.character)
        /\ (last.event.has_range /\ last.event.text # <<>>
              /\ last.event.start = last.event.end) =>
              /\ last.change.kind = "Insert"
              /\ last.change.start = GridIndex(last.event.start.line,
                                               last.event.start.character)
              /\ last.change.text = last.event.text
        /\ (last.event.has_range /\ last.event.text # <<>>
              /\ last.event.start # last.event.end) =>
              /\ last.change.kind = "Replace"
              /\ last.change.start = GridIndex(last.event.start.line,
                                               last.event.start.character)
              /\ last.change.end = GridIndex(last.event.end.line, last.event.end.character)
              /\ last.change.text = last.event.text

\* C27, its case: an event with a range whose ends are equal and with empty text has
\* become a Delete at that position.
C27_Witness ==
    /\ last.op = "change"
    /\ last.event.has_range /\ last.event.text = <<>>
    /\ last.event.start = last.event.end
    /\ last.event.start = Position(1, 1)
    /\ last.change = Change("Delete", GridIndex(1, 1), GridIndex(1, 1), <<>>)

\* The InputEdit records a Tree observing the call in `last` computes
TreeEdit ==
    edit_from_ctx(last.op, last.ctx_old_breaklines, last.ctx_breaklines, last.ctx_old_str,
                  last.nstart, last.nend, last.s, last.ctx_inserted)

\* The (row, UTF-8 byte column) of byte b of a text, by the line scan of the text
PointOfByte(t, b) ==
    LET before == {k \in 1..Len(FastEOL(t)) : FastEOL(t)[k] < b}
    IN IF before = {} THEN Point(0, b)
       ELSE Point(Cardinality(before), b - (FastEOL(t)[Cardinality(before)] + 1))

\* C28: for every edit Text applies, the record computed from the UpdateContext has
\* start_byte and old_end_byte at the bytes of the edit's start and end in the old
\* document, new_end_byte = start_byte + len(inserted text), and new_end_position at
\* the row and byte column of byte new_end_byte of the new document.
C28_TreeEditMatchesEdit ==
    (last.op \in {"delete", "insert", "replace", "replace_full"}
       /\ last.notified >= 1 /\ last.result = "ok" /\ ~last.wrapped) =>
        \A e \in TreeEdit :
            /\ e.result = "ok"
            /\ e.start_byte = (IF last.op = "replace_full" THEN 0 ELSE last.start_byte)
            /\ e.old_end_byte = (IF last.op = "replace_full" THEN Len(last.ctx_old_str)
                                 ELSE last.end_byte)
            /\ e.new_end_byte = e.start_byte + Len(last.s)
            /\ e.new_end_position = PointOfByte(text, e.new_end_byte)

\* The byte offsets of a line that are codepoint boundaries at which n units of the
\* encoding have gone by
BoundariesAt(enc, s, n) ==
    {b \in 0..Len(s) : is_char_boundary(s, b) /\ Units(enc, Slice(s, 0, b)) = n}

\* C22: in each encoding and for every line without EOL, every column n with
\* 0 <= n <= units_in_line that falls on a codepoint boundary is accepted and becomes
\* the byte offset at which n units have gone by: 0 for n == 0, line.len for
\* n == units_in_line (the codepoint count for UTF-32).
C22_ColumnTranslation ==
    last.op = "normalize" =>
        \A b \in BoundariesAt(last.enc0, last.text0, last.start.col) :
            /\ last.result = "ok"
            /\ last.nstart = GridIndex(0, b)

\* C23: a column inside the line that is not on a codepoint boundary (between the two
\* code units of a surrogate pair in UTF-16, wherever the pair is; inside a codepoint
\* in UTF-8) fails with InBetweenCharBoundries.
C23_MidCodepointRejected ==
    (/\ last.op = "normalize"
     /\ last.start.col < Units(last.enc0, last.text0)
     /\ BoundariesAt(last.enc0, last.text0, last.start.col) = {})
    => last.result = "InBetweenCharBoundries"

\* std::str::from_utf8(t).is_ok(): t is a sequence of whole characters
RECURSIVE ValidUtf8(_)
ValidUtf8(t) ==
    \/ t = <<>>
    \/ \E c \in CodePoints \cup {<<BR>>, <<RC>>} :
          /\ Len(c) <= Len(t)
          /\ Slice(t, 0, Len(c)) = c
          /\ ValidUtf8(Slice(t, Len(c), Len(t)))

\* C24 (I4): the start_byte and end_byte that delete, insert and replace compute fall
\* on char boundaries of the text they are applied to, so that no char-boundary
\* assertion fires, and after a successful edit the text is valid UTF-8.
C24_EditsKeepUtf8 ==
    /\ (last.op \in {"delete", "insert", "replace"} /\ last.rows > 0)
         => /\ is_char_boundary(last.text1, last.start_byte)
            /\ is_char_boundary(last.text1, last.end_byte)
    /\ (last.op # "none" /\ last.result = "ok") => ValidUtf8(text)

\* The post-condition of normalize for a position g it turned into n, on the text
\* and the index it left: the row is kept and exists, and the byte of the position
\* is a char boundary of the text that lies in the row's line without its EOL bytes
\* or at its end; the line of the last row runs to the end of the text.
NormalizePost(g, n, t, br) ==
    /\ n.row = g.row
    /\ n.row < row_count(br)
    /\ RowInText(t, br, n.row)
    /\ row_start(br, n.row) + n.col <= Len(t)
    /\ is_char_boundary(t, row_start(br, n.row) + n.col)
    /\ ~is_last_row(br, n.row) => n.col <= Len(PureLine(t, br, n.row))

\* C29: after normalize succeeds on a document (observed in insert, which normalises
\* its one position and then uses it), row is unchanged and < row_count(), and
\* row_start(row) + col is a char boundary of the text between the first byte of the
\* row and the first byte of the row's terminator (text.len() for the last row).
C29_NormaliserPostcondition ==
    (last.op = "insert" /\ last.rows > 0)
    => NormalizePost(last.start, last.nstart, last.text1, last.br1)

\* The call deletes the terminator of a row that is not the last one: from the end
\* of the row's line without its EOL bytes to column 0 of the next row
DeletesTerminator ==
    /\ last.op = "delete"
    /\ RowInText(last.text0, last.br0, last.start.row)
    /\ ~is_last_row(last.br0, last.start.row)
    /\ last.start.col = Len(PureLine(last.text0, last.br0, last.start.row))
    /\ last.end = GridIndex(last.start.row + 1, 0)

\* C30: deleting from (r, length of row r without EOL) to (r + 1, 0), for a row r
\* that is not the last one, removes exactly the terminator bytes of row r, leaves
\* all other bytes unchanged and decreases row_count() by exactly 1.
C30_DeleteTerminator ==
    DeletesTerminator
    => /\ last.result = "ok"
       /\ Slice(last.text0, row_start(last.br0, last.start.row) + last.start.col,
                row_start(last.br0, last.start.row + 1)) \in {<<BR>>, <<RC>>, <<RC, BR>>}
       /\ text = StringDrain(last.text0,
                             row_start(last.br0, last.start.row) + last.start.col,
                             row_start(last.br0, last.start.row + 1))
       /\ row_count(br_indexes) = row_count(last.br0) - 1

\* C31: EolIndexes::replace_indexes(start, end, replacement), for start <= end <
\* row_count() and a replacement of k items, leaves the vector that the splice of
\* BrIndexes::replace_indexes leaves (entries start+1 ..= end replaced by the k items
\* in order, the others unchanged) and returns the range start+1 .. start+1+k.
C31_ReplaceIndexesIsSplice ==
    last.op = "replace_indexes"
    => LET sp == splice_replace_indexes(last.br0, last.start.row, last.end.row, last.s)
       IN /\ br_indexes = sp.br
          /\ last.start_byte = sp.from
          /\ last.end_byte = sp.to
          /\ last.end_byte = last.start.row + 1 + Len(last.s)

\* C32: after a successful delete, insert or replace with normalised endpoints
\* start <= end and inserted text s (empty for delete), row_count() is the row count
\* at normalisation, less end.row - start.row, plus the number of line terminators
\* the scanner finds in s.
C32_RowCountArithmetic ==
    (last.op \in {"delete", "insert", "replace"} /\ last.result = "ok")
    => row_count(br_indexes)
         = last.rows - (last.nend.row - last.nstart.row) + Len(FastEOL(last.s))

\* C32, its case: a replace over two row boundaries by a text with one terminator
C32_Witness ==
    /\ last.op = "replace"
    /\ last.result = "ok"
    /\ last.nend.row - last.nstart.row = 2
    /\ Len(FastEOL(last.s)) = 1
    /\ row_count(br_indexes) = last.rows - 1

C34_EmptyEditChangesNothing ==
    (/\ last.result = "ok"
     /\ \/ last.op = "delete" /\ last.start = last.end
        \/ last.op = "insert" /\ last.s = <<>>)
    => /\ text = last.text0
       /\ br_indexes = last.br0

\* C35: in every UpdateContext of a delete, insert or replace, old_breaklines is the
\* line scan of old_str with 0 prepended, and every row of the positions of the
\* change is < old_breaklines.row_count(); also when a position of the edit had
\* row == row_count().
C35_ObserverPreState ==
    (last.op \in {"delete", "insert", "replace"} /\ last.notified > 0)
    => /\ last.ctx_old_breaklines = EolIndexesNew(last.ctx_old_str)
       /\ last.nstart.row < row_count(last.ctx_old_breaklines)
       /\ last.nend.row < row_count(last.ctx_old_breaklines)

\* The index on which a delete or a replace computes its byte range: the one
\* normalize left
RangeIndex == IF last.rows > 0 THEN last.br1 ELSE br_indexes

\* The two positions of a delete or a replace after correct_positions
RangeStart == correct_positions(last.rstart, last.rend).start

RangeEnd == correct_positions(last.rstart, last.rend).end

\* start_byte and end_byte of a delete or a replace
RangeStartByte == row_start(RangeIndex, RangeStart.row) + RangeStart.col

RangeEndByte == row_start(RangeIndex, RangeEnd.row) + RangeEnd.col

\* C36: in every reachable state, end_byte - start_byte of a delete or a replace does
\* not underflow, and the sub_offsets call it makes subtracts a delta that is <= every
\* entry it is applied to: no index entry wraps around and no call panics on it.
C36_NoUnderflow ==
    (/\ last.op \in {"delete", "replace"}
     /\ last.normalised
     /\ last.rows > 0 \/ last.result = "panic"
     /\ row_start(RangeIndex, RangeStart.row) # None
     /\ row_start(RangeIndex, RangeEnd.row) # None)
    => /\ RangeStartByte <= RangeEndByte
       /\ ~last.wrapped
       /\ last.op = "delete" =>
             ~SubOffsetsUnderflows(remove_indexes(RangeIndex, RangeStart.row, RangeEnd.row),
                                   RangeStart.row, RangeEndByte - RangeStartByte)
       /\ (last.op = "replace" /\ RangeEndByte - RangeStartByte > Len(last.s)) =>
             ~SubOffsetsUnderflows(RangeIndex, RangeEnd.row,
                                   RangeEndByte - RangeStartByte - Len(last.s))

====
